---- MODULE Spec2Model ----
(***************************************************************************)
(* A model of the Foundry plugin: CodeValidator (static scan, validate,    *)
(* testInSandbox) and CodeWriter (writeExtension, addTool, addHook and the *)
(* marketplace install of an extension).                                   *)
(*                                                                         *)
(* A text (generated source, a tool body) is a sequence of lexical tokens; *)
(* the string it stands for is the tokens joined by line breaks.  A        *)
(* regular expression of the scanner is the set of token windows it        *)
(* matches (white space between tokens is what \s* and \s+ absorb).        *)
(***************************************************************************)
EXTENDS Integers, Sequences, FiniteSets, TLC

\* ------------------------------------------------------------- bounds ----
\* Longest candidate text handed to validate directly.
MaxLen == 3

\* ------------------------------------------------------------- texts -----
\* The tokens candidate texts are drawn from.
SampleTokens ==
  { "x", "require(", ")", "'child_process'", "child_process", "exec(",
    "EVAL(", "process.env", "export default {};", "// export default",
    "api.registerTool", "while(true){}" }

RECURSIVE TextsUpTo(_)
TextsUpTo(n) ==
  IF n = 0 THEN { <<>> }
  ELSE LET shorter == TextsUpTo(n - 1)
       IN shorter \cup { Append(t, k) : t \in { s \in shorter : Len(s) = n - 1 },
                                        k \in SampleTokens }

Texts == TextsUpTo(MaxLen)

\* The /i flag of the scanner's expressions: matching is on the lower-cased text.
Lower(tok) ==
  CASE tok = "EVAL(" -> "eval("
    [] tok = "execSync(" -> "execsync("
    [] tok = "new Function(" -> "new function("
    [] OTHER -> tok

LowerText(code) == [i \in 1..Len(code) |-> Lower(code[i])]

\* code contains the window w (a contiguous run of tokens).
HasWindow(code, w) ==
  \E i \in 1..(Len(code) - Len(w) + 1) :
     \A k \in 1..Len(w) : code[i + k - 1] = w[k]

\* RegExp.test for one rule: some window of the rule occurs in the text.
Test(windows, code) == \E w \in windows : HasWindow(code, w)

\* ------------------------------------------------- CodeValidator: scan ----
blockPatterns ==
  << [reason |-> "SSH key reference",
      windows |-> { <<"id_rsa">>, <<"id_ed25519">>, <<"~/.ssh/">> }],
     [reason |-> "AWS credentials",
      windows |-> { <<"aws_secret">>, <<"aws_access">>, <<"~/.aws/">> }],
     [reason |-> "GPG key reference",
      windows |-> { <<"~/.gnupg/">> }],
     [reason |-> "Child process import",
      windows |-> { <<"require(", "'child_process'", ")">>,
                    <<"require(", "\"child_process\"", ")">> }],
     [reason |-> "Shell execution",
      windows |-> { <<"exec(">>, <<"spawn(">>, <<"execsync(">> }],
     [reason |-> "eval() usage",
      windows |-> { <<"eval(">> }],
     [reason |-> "Dynamic function creation",
      windows |-> { <<"new function(">> }],
     [reason |-> "Exfiltration domain",
      windows |-> { <<".ngrok.">>, <<".burpcollaborator.">>, <<".oastify.">>,
                    <<"webhook.site">>, <<"requestbin">> }],
     [reason |-> "Prompt injection",
      windows |-> { <<"ignore previous instructions">>, <<"system: you">> }],
     [reason |-> "Crypto mining",
      windows |-> { <<"coinhive">>, <<"cryptominer">> }],
     [reason |-> "System persistence",
      windows |-> { <<"crontab">>, <<"systemctl">>, <<"launchctl">> }],
     [reason |-> "Script injection",
      windows |-> { <<"<script">>, <<"<!--">> }] >>

flagPatterns ==
  << [reason |-> "Environment variable access",
      windows |-> { <<"process.env">>, <<".env">> }],
     [reason |-> "Filesystem access",
      windows |-> { <<"readfile">>, <<"writefile">>, <<"fs.">> }],
     [reason |-> "Base64 encoding",
      windows |-> { <<"atob">>, <<"btoa">>, <<"buffer.from">> }],
     [reason |-> "Hex/unicode escapes",
      windows |-> { <<"\\x41">>, <<"\\u0041">> }] >>

\* (mutant) the scan stops at the first rule that matches.
RECURSIVE MatchesFirst(_, _, _)
MatchesFirst(rules, code, i) ==
  IF i > Len(rules) THEN <<>>
  ELSE IF Test(rules[i].windows, code) THEN <<rules[i].reason>>
       ELSE MatchesFirst(rules, code, i + 1)

\* The reasons of the rules of a table that match the text, in table order.
RECURSIVE Matches(_, _, _)
Matches(rules, code, i) ==
  IF i > Len(rules) THEN <<>>
  ELSE (IF Test(rules[i].windows, code) THEN <<rules[i].reason>> ELSE <<>>)
       \o Matches(rules, code, i + 1)

staticSecurityScan(code) ==
  [blocked |-> Matches(blockPatterns, LowerText(code), 1),
   flagged |-> Matches(flagPatterns, LowerText(code), 1)]

\* ----------------------------------------------- CodeValidator: syntax ----
\* Tokens by what they are to a JavaScript parser.
CommentTokens == { "// export default", "/** generated header */" }
ModuleOnlyTokens ==
  { "export default {};", "import type { ClawdbotPluginApi }",
    "export default { register(api: ClawdbotPluginApi) {" }
CallOpeners ==
  { "require(", "exec(", "EVAL(", "eval(", "spawn(", "execSync(", "new Function(" }
StatementTokens == { "while(true){}", "return", "break" }

\* A scan of the text as a statement list: stack holds, per open call, whether
\* its argument has been given.
RECURSIVE ParseFrom(_, _, _)
ParseFrom(code, i, stack) ==
  IF i > Len(code) THEN stack = <<>>
  ELSE
    LET tok == code[i]
        n == Len(stack)
        given == [stack EXCEPT ![n] = TRUE]
    IN CASE tok \in CommentTokens -> ParseFrom(code, i + 1, stack)
         [] tok \in ModuleOnlyTokens -> FALSE
         [] tok \in StatementTokens ->
              n = 0 /\ ParseFrom(code, i + 1, stack)
         [] tok = ")" ->
              n > 0 /\ ParseFrom(code, i + 1, SubSeq(stack, 1, n - 1))
         [] tok \in CallOpeners ->
              IF n = 0 THEN ParseFrom(code, i + 1, <<FALSE>>)
              ELSE ~stack[n] /\ ParseFrom(code, i + 1, Append(given, FALSE))
         [] OTHER ->
              IF n = 0 THEN ParseFrom(code, i + 1, stack)
              ELSE ~stack[n] /\ ParseFrom(code, i + 1, given)

\* new Function(code) does not throw.
FunctionBodyParses(code) == ParseFrom(code, 1, <<>>)

\* String.includes, which is case-sensitive.
Includes(code, toks) == \E i \in 1..Len(code) : code[i] \in toks

HasRegisterTool == { "api.registerTool", "api.registerTool({ async execute() {" }
HasExportDefault ==
  { "export default {};", "export default { register(api: ClawdbotPluginApi) {",
    "// export default" }

\* --------------------------------------------- CodeValidator: validate ----
Types == { "extension", "tool", "hook" }

BlockedError(p) == <<"BLOCKED: ", p>>
SyntaxError == <<"Syntax error: ", "engine message">>
MissingExportDefault == <<"Extension missing 'export default'">>

\* (mutant) a missing export default is a warning.
validateWarningsOnly(code, type) ==
  LET syntaxErrors ==
        IF FunctionBodyParses(code) THEN <<>> ELSE <<SyntaxError>>
      securityPatterns == staticSecurityScan(code)
      blockedErrors ==
        [i \in 1..Len(securityPatterns.blocked) |->
            BlockedError(securityPatterns.blocked[i])]
      noTools ==
        IF type = "extension" /\ ~Includes(code, HasRegisterTool)
        THEN <<"Extension doesn't register any tools">> ELSE <<>>
      noExport ==
        IF type = "extension" /\ ~Includes(code, HasExportDefault)
        THEN <<"Extension missing 'export default'">> ELSE <<>>
      errors == syntaxErrors \o blockedErrors
  IN [valid |-> errors = <<>>,
      errors |-> errors,
      warnings |-> noTools \o noExport,
      securityFlags |-> securityPatterns.flagged]

validate(code, type) ==
  LET syntaxErrors ==
        IF FunctionBodyParses(code) THEN <<>> ELSE <<SyntaxError>>
      securityPatterns == staticSecurityScan(code)
      blockedErrors ==
        [i \in 1..Len(securityPatterns.blocked) |->
            BlockedError(securityPatterns.blocked[i])]
      securityFlags == securityPatterns.flagged
      noTools ==
        IF type = "extension" /\ ~Includes(code, HasRegisterTool)
        THEN <<"Extension doesn't register any tools">> ELSE <<>>
      noExport ==
        IF type = "extension" /\ ~Includes(code, HasExportDefault)
        THEN <<MissingExportDefault>> ELSE <<>>
      loop ==
        IF Includes(code, {"while(true){}"}) /\ ~Includes(code, {"break", "return"})
        THEN <<"Potential infinite loop detected">> ELSE <<>>
      errors == syntaxErrors \o blockedErrors \o noExport
  IN [valid |-> errors = <<>>,
      errors |-> errors,
      warnings |-> noTools \o loop,
      securityFlags |-> securityFlags]

\* ------------------------------------- CodeValidator: the sandbox child ----
\* Most tools one registerTool call is given in a candidate plugin.
MaxRegTools == 2

\* What the sandboxed child process does with a candidate, as far as the
\* runner can tell.  regs: the arguments of the plugin's registerTool calls,
\* each [shape, tools] with tools[i] = "tool i has an execute function".
\* after: what register() does when its registrations went through.
\* ignoresTerm: the child does not die on SIGTERM.
RegShapes == { "object", "array", "factoryArray", "factoryObject" }

RECURSIVE BoolSeqs(_)
BoolSeqs(n) ==
  IF n = 0 THEN { <<>> }
  ELSE LET shorter == BoolSeqs(n - 1)
       IN shorter \cup { Append(t, b) : t \in { s \in shorter : Len(s) = n - 1 },
                                        b \in BOOLEAN }

RegArgs ==
  { a \in [shape : RegShapes, tools : BoolSeqs(MaxRegTools)] :
      a.shape \in { "object", "factoryObject" } => Len(a.tools) = 1 }

Afters == { "return", "throw", "hang", "exit0", "exit1", "printOkThrow" }

Plugins ==
  [importOk : {TRUE}, hasRegister : {TRUE},
   regs : { <<>> } \cup { <<a>> : a \in RegArgs },
   after : Afters, ignoresTerm : BOOLEAN]
  \cup
  [importOk : BOOLEAN, hasRegister : BOOLEAN, regs : { <<>> },
   after : { "return" }, ignoresTerm : BOOLEAN]

\* mockApi.registerTool of the runner: "throw" or "ok".
SomeToolLacksExecute(tools) == \E i \in 1..Len(tools) : ~tools[i]

MockRegisterTool(arg) ==
  IF arg.shape = "array"
  THEN (IF SomeToolLacksExecute(arg.tools) THEN "throw" ELSE "ok")
  ELSE IF arg.shape \in { "factoryArray", "factoryObject" }
       THEN (IF arg.shape = "factoryArray" /\ SomeToolLacksExecute(arg.tools)
             THEN "throw" ELSE "ok")
       ELSE "ok"

\* The runner script in the child: how the child ends, if it ends.
\* code -1 stands for "no exit code" (ended by a signal).
SandboxErrorLine == "SANDBOX_ERROR: message"

RunRunner(plugin) ==
  LET caught == [exits |-> TRUE, code |-> 1, stdoutOk |-> FALSE,
                 stderr |-> SandboxErrorLine]
  IN IF ~plugin.importOk THEN caught
     ELSE IF ~plugin.hasRegister THEN caught
     ELSE IF \E i \in 1..Len(plugin.regs) : MockRegisterTool(plugin.regs[i]) = "throw"
          THEN caught
     ELSE CASE plugin.after = "throw" -> caught
            [] plugin.after = "printOkThrow" -> [caught EXCEPT !.stdoutOk = TRUE]
            [] plugin.after = "exit1" ->
                 [exits |-> TRUE, code |-> 1, stdoutOk |-> FALSE, stderr |-> ""]
            [] plugin.after = "exit0" ->
                 [exits |-> TRUE, code |-> 0, stdoutOk |-> FALSE, stderr |-> ""]
            [] plugin.after = "hang" ->
                 [exits |-> FALSE, code |-> -1, stdoutOk |-> FALSE, stderr |-> ""]
            [] OTHER ->
                 [exits |-> TRUE, code |-> 0, stdoutOk |-> TRUE, stderr |-> ""]

\* ------------------------------------ CodeValidator: testInSandbox results --
CodeText(code) == IF code = -1 THEN "null" ELSE IF code = 0 THEN "0" ELSE "nonzero"

\* (mutant) the marker on stdout is not looked at.
CloseSucceedsAnyOutput(code, stdoutOk) == code = 0

\* The result the close handler resolves with.
CloseSucceeds(code, stdoutOk) == code = 0 /\ stdoutOk

CloseResult(code, stdoutOk, stderr) ==
  IF CloseSucceeds(code, stdoutOk)
  THEN [success |-> TRUE, error |-> <<>>]
  ELSE LET errorMatch == IF stderr = SandboxErrorLine THEN <<"message">> ELSE <<>>
           slice == IF stderr = "" THEN <<>> ELSE <<stderr>>
       IN [success |-> FALSE,
           error |-> IF errorMatch # <<>> THEN errorMatch
                     ELSE IF slice # <<>> THEN slice
                     ELSE <<"Exit code ", CodeText(code)>>]

ErrorResult == [success |-> FALSE, error |-> <<"spawn npx ENOENT">>]
TimeoutResult == [success |-> FALSE, error |-> <<"Sandbox timeout (15s)">>]
CatchResult == [success |-> FALSE, error |-> <<"write failed">>]

\* (mutant) every resolve() call replaces the result.
ResolveLast(old, r) == <<r>>

\* resolve() of the promise: the first call settles it, later calls do nothing.
Resolve(old, r) == IF old = <<>> THEN <<r>> ELSE old

\* ------------------------------------------------------------- state -----
VARIABLES
  vIn,     \* the argument of a direct validate call: [code, type]
  vOut,    \* its result, <<>> until the call has returned
  sb,      \* the testInSandbox runs, by run id
  dirs,    \* the per-run working directories that exist under the sandbox dir
  now,     \* Date.now()
  manifest,      \* CodeWriter.manifest.extensions, in memory
  diskManifest,  \* the extensions of manifest.json
  files,         \* by extension id: <<>> or <<[index, plugin]>>, the files of
                 \* ~/.clawdbot/extensions/<id>
  calls,         \* the writeExtension calls that went through the validator
  passedLog,     \* the definitions logged as "passed sandbox test"
  learnings,     \* LearningEngine.learnings (and learnings.json, saved after
                 \* every change)
  lastFailureId, \* register()'s lastFailureId: <<>> for null, else <<id>>
  nextId,        \* the number of entry ids handed out so far
  found,         \* the last findRelevantLearnings call: <<>> or
                 \* <<[tool, errorPattern, result]>>
  swManifest,      \* SelfWriter.manifest, in memory
  swDiskManifest,  \* written/manifest.json
  swFiles,         \* by id: <<>> or <<code>>, the file written/<id>.ts
  swOp,            \* <<>> or the write or delete that is between its two
                   \* file-system steps: <<[op, id, full]>>
  swUp,            \* the process that holds the SelfWriter is running
  boot,            \* the persisted files the stores are constructed on, and
                   \* which stores have been constructed: [files, loaded]
  host,            \* what the host process saw of foundry_add_tool and
                   \* foundry_add_hook: [answer, unhandled]
  pendingSession,      \* LearningEngine.pendingSession: <<>> for null
  pendingSessionFile,  \* pending-session.json: <<>> for no file
  sessionLog,          \* the "Saved pending session" and "Resumed session"
                       \* lines of the log: [ev, reason]
  prependContext       \* what the last before_agent_start returned: <<>> or
                       \* <<[resume]>>

valVars == <<vIn, vOut>>
sbVars == <<sb, dirs, now>>
store == <<manifest, diskManifest, files>>
wrVars == <<manifest, diskManifest, files, calls, passedLog>>
leVars == <<learnings, lastFailureId, nextId, found>>
swVars == <<swManifest, swDiskManifest, swFiles, swOp, swUp>>
vars == <<vIn, vOut, sb, dirs, now, manifest, diskManifest, files, calls, passedLog,
          learnings, lastFailureId, nextId, found,
          swManifest, swDiskManifest, swFiles, swOp, swUp, boot, host,
          pendingSession, pendingSessionFile, sessionLog, prependContext>>
psVars == <<pendingSession, pendingSessionFile, sessionLog, prependContext>>
auxVars == <<boot, host, psVars>>

\* What the sandbox leaves alone, and what validate leaves alone.
notSb == <<vIn, vOut, wrVars, leVars, swVars, auxVars>>
notVal == <<sb, dirs, now, wrVars, leVars, swVars, auxVars>>
notLe == <<valVars, sbVars, wrVars, swVars, auxVars>>
notSw == <<valVars, sb, dirs, wrVars, leVars, auxVars>>

\* Run 0 is a direct call of testInSandbox; runs 1 and 2 belong to the
\* writeExtension calls 1 and 2.
Runs == { 0, 1, 2 }

NoPlugin ==
  [importOk |-> TRUE, hasRegister |-> TRUE, regs |-> <<>>, after |-> "return",
   ignoresTerm |-> FALSE]

IdleRun ==
  [st |-> "idle", plugin |-> NoPlugin, testDir |-> -1, child |-> "none",
   exitCode |-> -1, stdoutOk |-> FALSE, stderr |-> "", termSent |-> FALSE,
   spawnTimer |-> "unset", fallbackTimer |-> "unset",
   closeDone |-> FALSE, errorDone |-> FALSE, result |-> <<>>]

\* The writeExtension calls in flight (a call without a validator has no await
\* and is over within its action).
Calls == { 1, 2 }
Ids == { "a", "b" }

NoDef == [id |-> "", tools |-> <<>>, hooks |-> <<>>, createdAt |-> 0]
NoValidation ==
  [valid |-> TRUE, errors |-> <<>>, warnings |-> <<>>, securityFlags |-> <<>>]
IdleCall == [pc |-> "idle", full |-> NoDef, validation |-> NoValidation]

ValIdle == vIn = [code |-> <<>>, type |-> "tool"] /\ vOut = <<>>
SbIdle == sb = [r \in Runs |-> IdleRun] /\ dirs = {} /\ now = 0
WrIdle ==
  /\ manifest = <<>> /\ diskManifest = <<>>
  /\ files = [i \in Ids |-> <<>>]
  /\ calls = [c \in Calls |-> IdleCall]
  /\ passedLog = {}

\* The type, names and bodies of the code SelfWriter is given, and the ids
\* it can make of them: `${type}-${name}-${Date.now()}`.
MaxSwClock == 1
SwNames == { "n1", "n2" }
SwCodes == { "c1", "c2" }
SwIds == { <<"tool", n, t>> : n \in SwNames, t \in 0..MaxSwClock }

\* A SelfWriter constructed on an empty data directory.
SwIdle ==
  /\ swManifest = <<>> /\ swDiskManifest = <<>>
  /\ swFiles = [id \in SwIds |-> <<>>]
  /\ swOp = <<>> /\ swUp = TRUE

\* The three stores that load a file when they are constructed.
Stores == { "sw", "cw", "le" }

\* No pending session, no agent started yet.
PsIdle ==
  /\ pendingSession = <<>> /\ pendingSessionFile = <<>>
  /\ sessionLog = <<>> /\ prependContext = <<>>

\* The stores were constructed on an empty data directory.
AuxIdle ==
  boot = [files |-> [s \in Stores |-> [kind |-> "missing", items |-> <<>>,
                                       extKind |-> "absent", extItems |-> <<>>]],
          loaded |-> [s \in Stores |-> "yes"]]
  /\ host = [answer |-> <<>>, unhandled |-> 0]
  /\ PsIdle

\* No learnings.json yet, no failure tracked, nothing asked.
LeIdle ==
  /\ learnings = <<>> /\ lastFailureId = <<>>
  /\ nextId = 0 /\ found = <<>>

\* -------------------------------------------------- validate, directly ----
ValInit ==
  /\ vIn \in [code : Texts, type : Types]
  /\ vOut = <<>>
  /\ SbIdle /\ WrIdle /\ LeIdle /\ SwIdle /\ AuxIdle

Validate ==
  /\ vOut = <<>>
  /\ vOut' = <<validate(vIn.code, vIn.type)>>
  /\ UNCHANGED <<vIn, notVal>>

ValNext == Validate

ValSpec == ValInit /\ [][ValNext]_vars

\* ------------------------------------------ CodeValidator.testInSandbox ----
\* The synchronous part: make the working directory, write index.ts and the
\* runner, spawn npx tsx, arm the two 15 s timers.  spawnOk = FALSE: the spawn
\* fails (the child emits error).
TestInSandbox(r, plugin, spawnOk) ==
  /\ sb[r].st = "idle"
  /\ dirs' = dirs \cup { now }
  /\ sb' = [sb EXCEPT ![r] =
              [IdleRun EXCEPT !.st = "running", !.plugin = plugin, !.testDir = now,
                              !.child = IF spawnOk THEN "alive" ELSE "nospawn",
                              !.spawnTimer = "armed", !.fallbackTimer = "armed"]]

\* The synchronous part when writing index.ts or the runner throws: the catch
\* block removes the working directory and the call returns a failure.
TestInSandboxCatch(r, plugin) ==
  /\ sb[r].st = "idle"
  /\ dirs' = dirs \ { now }
  /\ sb' = [sb EXCEPT ![r] =
              [IdleRun EXCEPT !.st = "running", !.plugin = plugin, !.testDir = now,
                              !.result = <<CatchResult>>]]

\* The child runs the runner to its end (it emits exit, which clears the timer
\* of spawn's timeout option).
ChildExit(r) ==
  LET out == RunRunner(sb[r].plugin)
  IN /\ sb[r].child = "alive"
     /\ out.exits
     /\ sb' = [sb EXCEPT ![r].child = "exited", ![r].exitCode = out.code,
                         ![r].stdoutOk = out.stdoutOk, ![r].stderr = out.stderr,
                         ![r].spawnTimer =
                            IF @ = "armed" THEN "cleared" ELSE @]
     /\ UNCHANGED <<dirs, now, notSb>>

\* The child dies of the SIGTERM it was sent.
ChildKilled(r) ==
  /\ sb[r].child = "alive"
  /\ sb[r].termSent
  /\ ~sb[r].plugin.ignoresTerm
  /\ sb' = [sb EXCEPT ![r].child = "exited", ![r].exitCode = -1,
                      ![r].spawnTimer = IF @ = "armed" THEN "cleared" ELSE @]
  /\ UNCHANGED <<dirs, now, notSb>>

\* proc.on("close"): after the child's exit, or after a failed spawn's error.
OnClose(r) ==
  /\ sb[r].st = "running"
  /\ ~sb[r].closeDone
  /\ \/ sb[r].child = "exited"
     \/ sb[r].child = "nospawn" /\ sb[r].errorDone
  /\ dirs' = dirs \ { sb[r].testDir }
  /\ sb' = [sb EXCEPT ![r].closeDone = TRUE,
                      ![r].result =
                         Resolve(@, CloseResult(IF sb[r].child = "nospawn" THEN 1
                                                ELSE sb[r].exitCode,
                                                sb[r].stdoutOk, sb[r].stderr))]
  /\ UNCHANGED <<now, notSb>>

\* proc.on("error"): the spawn failed.
OnError(r) ==
  /\ sb[r].st = "running"
  /\ sb[r].child = "nospawn"
  /\ ~sb[r].errorDone
  /\ dirs' = dirs \ { sb[r].testDir }
  /\ sb' = [sb EXCEPT ![r].errorDone = TRUE,
                      ![r].result = Resolve(@, ErrorResult)]
  /\ UNCHANGED <<now, notSb>>

\* The timer of spawn's timeout option: it sends the default kill signal,
\* SIGTERM, to a child that is still there.
SpawnTimeout(r) ==
  /\ sb[r].spawnTimer = "armed"
  /\ sb' = [sb EXCEPT ![r].spawnTimer = "fired",
                      ![r].termSent = @ \/ sb[r].child = "alive"]
  /\ UNCHANGED <<dirs, now, notSb>>

\* The "timeout fallback" timer: proc.kill() (SIGTERM) and resolve.  It was
\* armed after spawn's timer with the same delay, so it runs after it.
TimeoutFallback(r) ==
  /\ sb[r].fallbackTimer = "armed"
  /\ sb[r].spawnTimer # "armed"
  /\ sb' = [sb EXCEPT ![r].fallbackTimer = "fired",
                      ![r].termSent = @ \/ sb[r].child = "alive",
                      ![r].result = Resolve(@, TimeoutResult)]
  /\ UNCHANGED <<dirs, now, notSb>>

\* What the event loop and the operating system do on their own.
SbEvents ==
  \/ \E r \in Runs : ChildExit(r)
  \/ \E r \in Runs : ChildKilled(r)
  \/ \E r \in Runs : OnClose(r)
  \/ \E r \in Runs : OnError(r)
  \/ \E r \in Runs : SpawnTimeout(r)
  \/ \E r \in Runs : TimeoutFallback(r)

\* testInSandbox called directly, on any candidate.
SbCall ==
  /\ \E plugin \in Plugins, spawnOk \in BOOLEAN : TestInSandbox(0, plugin, spawnOk)
  /\ UNCHANGED <<now, notSb>>

SbCallCatch ==
  /\ \E plugin \in Plugins : TestInSandboxCatch(0, plugin)
  /\ UNCHANGED <<now, notSb>>

SbInit == ValIdle /\ SbIdle /\ WrIdle /\ LeIdle /\ SwIdle /\ AuxIdle

SbNext ==
  \/ SbCall
  \/ SbCallCatch
  \/ SbEvents

SbSpec == SbInit /\ [][SbNext]_vars

\* The event loop runs every callback that is due and the operating system
\* runs the child and delivers its signals.
SbFairness ==
  \A r \in Runs :
    /\ WF_vars(ChildExit(r)) /\ WF_vars(ChildKilled(r))
    /\ WF_vars(OnClose(r)) /\ WF_vars(OnError(r))
    /\ WF_vars(SpawnTimeout(r)) /\ WF_vars(TimeoutFallback(r))

SbLiveSpec == SbInit /\ [][SbNext]_vars /\ SbFairness

\* ------------------------------------------ testInSandbox runs at once ----
\* The clock readings of the overlapping runs.
MaxSbClock == 1

\* A candidate that registers and returns, and one that never ends.
OverlapPlugins == { NoPlugin, [NoPlugin EXCEPT !.after = "hang"] }

\* testInSandbox is async and holds no lock: a second call runs its
\* synchronous part while the first call's child is still there.  Date.now()
\* has a resolution of one millisecond, so the second call reads the same
\* value or a later one.
SbCallAgain ==
  /\ \E r \in { 0, 1 }, plugin \in OverlapPlugins, spawnOk \in BOOLEAN :
        TestInSandbox(r, plugin, spawnOk)
  /\ UNCHANGED <<now, notSb>>

SbTick ==
  /\ now < MaxSbClock
  /\ now' = now + 1
  /\ UNCHANGED <<sb, dirs, notSb>>

Sb2Init == ValIdle /\ SbIdle /\ WrIdle /\ LeIdle /\ SwIdle /\ AuxIdle

Sb2Next ==
  \/ SbCallAgain
  \/ SbTick
  \/ SbEvents

Sb2Spec == Sb2Init /\ [][Sb2Next]_vars

\* ------------------------------------------------------- CodeWriter -----
\* Most tools and most hooks of an extension definition.
MaxTools == 1
MaxHooks == 1

\* The bodies (ToolDef.code, HookDef.code) callers submit.  A tool or a hook
\* stands for its body: its name, label and schema are rendered as data.
ToolCodes == { <<"x">>, <<"exec(", "x", ")">> }
HookCodes == { <<"process.env">> }

RECURSIVE SeqsUpTo(_, _)
SeqsUpTo(S, n) ==
  IF n = 0 THEN { <<>> }
  ELSE LET shorter == SeqsUpTo(S, n - 1)
       IN shorter \cup { Append(t, x) : t \in { q \in shorter : Len(q) = n - 1 },
                                        x \in S }

\* What a caller can pass as Omit<ExtensionDef, "createdAt">.
Submissions ==
  [id : Ids, tools : SeqsUpTo(ToolCodes, MaxTools),
   hooks : SeqsUpTo(HookCodes, MaxHooks)]

RECURSIVE Flatten(_)
Flatten(seqs) ==
  IF seqs = <<>> THEN <<>> ELSE Head(seqs) \o Flatten(Tail(seqs))

\* TOOL_TEMPLATE, HOOK_TEMPLATE and EXTENSION_TEMPLATE with their slots filled.
RenderTool(code) == <<"api.registerTool({ async execute() {">> \o code \o <<"} });">>
RenderHook(code) == <<"api.on(event, async () => {">> \o code \o <<"});">>

RenderExtension(full) ==
  <<"/** generated header */", "import type { ClawdbotPluginApi }",
    "export default { register(api: ClawdbotPluginApi) {", full.id>>
  \o Flatten([i \in 1..Len(full.tools) |-> RenderTool(full.tools[i])])
  \o Flatten([i \in 1..Len(full.hooks) |-> RenderHook(full.hooks[i])])
  \o <<"logger.info", "} };">>

\* What the child does with a rendered extension: it loads if every body is a
\* statement list, each tool is registered as one object with its execute
\* function, the hooks' bodies do not run.
BehaviourOf(full) ==
  [importOk |-> /\ \A i \in 1..Len(full.tools) : FunctionBodyParses(full.tools[i])
                /\ \A i \in 1..Len(full.hooks) : FunctionBodyParses(full.hooks[i]),
   hasRegister |-> TRUE,
   regs |-> [i \in 1..Len(full.tools) |-> [shape |-> "object", tools |-> <<TRUE>>]],
   after |-> "return",
   ignoresTerm |-> FALSE]

\* (mutant) the entry is always pushed.
UpsertPush(exts, full) == Append(exts, full)

\* findIndex by id, then replace in place or push.
Upsert(exts, full) ==
  IF \E i \in 1..Len(exts) : exts[i].id = full.id
  THEN LET idx == CHOOSE i \in 1..Len(exts) :
                     /\ exts[i].id = full.id
                     /\ \A j \in 1..(i - 1) : exts[j].id # full.id
       IN [exts EXCEPT ![idx] = full]
  ELSE Append(exts, full)

\* The tail of writeExtension: index.ts and clawdbot.plugin.json written, the
\* manifest entry upserted, the manifest saved.
Persist(full, code) ==
  /\ files' = [files EXCEPT ![full.id] = <<[index |-> code, plugin |-> full.id]>>]
  /\ manifest' = Upsert(manifest, full)
  /\ diskManifest' = Upsert(manifest, full)

\* writeExtension(def) without a validator: nothing is awaited, the call is
\* one step.
WriteUnvalidated(def) ==
  LET full == [id |-> def.id, tools |-> def.tools, hooks |-> def.hooks,
               createdAt |-> now]
  IN Persist(full, RenderExtension(full))

\* The ExtensionDef writeExtension makes of its argument.
FullDef(def) ==
  [id |-> def.id, tools |-> def.tools, hooks |-> def.hooks, createdAt |-> now]

\* validator.validate(extensionCode, "extension"), tabulated over the texts
\* writeExtension renders from a submission (the text does not depend on now).
ValidatedRenderings ==
  [code \in { RenderExtension([id |-> d.id, tools |-> d.tools, hooks |-> d.hooks,
                               createdAt |-> 0]) : d \in Submissions }
     |-> validate(code, "extension")]

\* (mutant) a failed validation does not stop the call.
ValidationBlocksNever(validation) == FALSE

\* The check after validate: block if validation failed.
ValidationBlocks(validation) == ~validation.valid

\* foundry_write_extension: writeExtension(def, codeValidator) up to its first
\* await, the one on validator.validate.
FoundryWriteExtension(c, def) ==
  /\ calls[c].pc \in { "idle", "thrown", "returned" }
  /\ sb[c].st = "idle"
  /\ calls' = [calls EXCEPT ![c] =
                 [pc |-> "awaitValidate", full |-> FullDef(def),
                  validation |-> ValidatedRenderings[RenderExtension(FullDef(def))]]]
  /\ UNCHANGED <<store, passedLog, valVars, sbVars, leVars, swVars, auxVars>>

\* writeExtension resumed after an await.  After validate: throw, or start the
\* sandbox run and await it.  After testInSandbox: throw, or write the files
\* and the manifest and return.  The tool's catch turns a throw into the
\* "Extension BLOCKED" answer.
WxResume(c) ==
  IF calls[c].pc = "awaitValidate"
  THEN IF ValidationBlocks(calls[c].validation)
       THEN /\ calls' = [calls EXCEPT ![c].pc = "thrown"]
            /\ UNCHANGED <<store, passedLog, valVars, sbVars, leVars, swVars, auxVars>>
       ELSE /\ \/ \E spawnOk \in BOOLEAN :
                    TestInSandbox(c, BehaviourOf(calls[c].full), spawnOk)
               \/ TestInSandboxCatch(c, BehaviourOf(calls[c].full))
            /\ calls' = [calls EXCEPT ![c].pc = "awaitSandbox"]
            /\ UNCHANGED <<store, passedLog, valVars, now, leVars, swVars, auxVars>>
  ELSE /\ calls[c].pc = "awaitSandbox"
       /\ sb[c].result # <<>>
       /\ IF ~sb[c].result[1].success
          THEN /\ calls' = [calls EXCEPT ![c].pc = "thrown"]
               /\ UNCHANGED <<store, passedLog, valVars, sbVars, leVars, swVars, auxVars>>
          ELSE /\ Persist(calls[c].full, RenderExtension(calls[c].full))
               /\ calls' = [calls EXCEPT ![c].pc = "returned"]
               /\ passedLog' = passedLog \cup { calls[c].full }
               /\ UNCHANGED <<valVars, sbVars, leVars, swVars, auxVars>>

\* foundry_marketplace install of an extension: writeExtension without a
\* validator, with no tools and no hooks.
MarketplaceInstall(id) ==
  /\ WriteUnvalidated([id |-> id, tools |-> <<>>, hooks |-> <<>>])
  /\ UNCHANGED <<calls, passedLog, valVars, sbVars, leVars, swVars, auxVars>>

\* addTool: false, and no change, for an unknown extension; else the tool is
\* pushed onto the manifest entry and the entry is written again, without a
\* validator.
AddTool(id, tool) ==
  /\ \E i \in 1..Len(manifest) : manifest[i].id = id
  /\ LET ext == CHOOSE e \in { manifest[i] : i \in 1..Len(manifest) } : e.id = id
     IN /\ Len(ext.tools) < MaxTools
        /\ WriteUnvalidated([ext EXCEPT !.tools = Append(@, tool)])
  /\ UNCHANGED <<calls, passedLog, valVars, sbVars, leVars, swVars, auxVars>>

AddHook(id, hook) ==
  /\ \E i \in 1..Len(manifest) : manifest[i].id = id
  /\ LET ext == CHOOSE e \in { manifest[i] : i \in 1..Len(manifest) } : e.id = id
     IN /\ Len(ext.hooks) < MaxHooks
        /\ WriteUnvalidated([ext EXCEPT !.hooks = Append(@, hook)])
  /\ UNCHANGED <<calls, passedLog, valVars, sbVars, leVars, swVars, auxVars>>

WrInit == ValIdle /\ SbIdle /\ WrIdle /\ LeIdle /\ SwIdle /\ AuxIdle

\* The tools of the plugin called one after the other (call 1 only).  No
\* sandbox run is started under this specification (validate accepts no
\* rendered extension), so the events of a run are left to SbNext.
WrNext ==
  \/ \E def \in Submissions : FoundryWriteExtension(1, def)
  \/ WxResume(1)
  \/ \E id \in Ids : MarketplaceInstall(id)
  \/ \E id \in Ids, tool \in ToolCodes : AddTool(id, tool)
  \/ \E id \in Ids, hook \in HookCodes : AddHook(id, hook)

WrSpec == WrInit /\ [][WrNext]_vars

\* ------------------------------------- two writeExtension calls at once ----
\* A call that is suspended at one of the awaits of writeExtension.
InFlight(c) == calls[c].pc \in { "awaitValidate", "awaitSandbox" }

\* foundry_write_extension is called; the agent calls it a second time while
\* the first call is suspended (nothing in the code holds the second back).
FirstWrite(def) ==
  /\ calls[1].pc = "idle" /\ calls[2].pc = "idle"
  /\ FoundryWriteExtension(1, def)

OverlappingWrite(def) ==
  /\ InFlight(1) /\ calls[2].pc = "idle"
  /\ FoundryWriteExtension(2, def)

OvInit == ValIdle /\ SbIdle /\ WrIdle /\ LeIdle /\ SwIdle /\ AuxIdle

\* The event loop resumes the suspended calls in any order.
OvNext ==
  \/ \E def \in Submissions : FirstWrite(def)
  \/ \E def \in Submissions : OverlappingWrite(def)
  \/ \E c \in Calls : WxResume(c)

OvSpec == OvInit /\ [][OvNext]_vars

\* ---------------------------------------------------- LearningEngine -----
\* "Keep only last 100 success entries"; findRelevantLearnings' slice(-10).
SuccessCap == 100
FindWindow == 10

\* Tool names, error messages and resolutions callers pass.  A text is a
\* sequence of tokens, <<>> the empty (or absent) text; "" is an absent tool.
ToolNames == { "t1", "t2" }
ErrorTexts == { <<"E1">>, <<"E1", "E2">> }
ErrorPatterns == { <<>>, <<"E1">>, <<"E2">> }
Resolutions == { <<"r1">>, <<"r2">> }

\* A fresh LearningEntry.  Its id is `<kind>_${Date.now()}_${random}`: the n-th
\* id handed out stands for it.
NewEntry(id, type, tool, error, context, useCount) ==
  [id |-> id, type |-> type, tool |-> tool, error |-> error,
   resolution |-> <<>>, context |-> context, timestamp |-> now,
   useCount |-> useCount]

recordFailure(ls, id, tool, error) ==
  Append(ls, NewEntry(id, "failure", tool, error, "", 0))

\* The entries selected by a test, in their order (Array.prototype.filter).
RECURSIVE Filter(_, _, _)
Filter(ls, keep, i) ==
  IF i > Len(ls) THEN <<>>
  ELSE (IF i \in keep THEN <<ls[i]>> ELSE <<>>) \o Filter(ls, keep, i + 1)

\* (mutant) the resolution is stored as a new pattern entry.
recordResolutionAppend(ls, failureId, resolution) ==
  IF \E i \in 1..Len(ls) : ls[i].id = failureId
  THEN LET i == CHOOSE i \in 1..Len(ls) : ls[i].id = failureId
       IN Append(ls, [ls[i] EXCEPT !.resolution = resolution, !.type = "pattern"])
  ELSE ls

\* find by id; if found, set the resolution and upgrade the entry to pattern.
recordResolution(ls, failureId, resolution) ==
  IF \E i \in 1..Len(ls) : ls[i].id = failureId
  THEN LET i == CHOOSE i \in 1..Len(ls) :
                   /\ ls[i].id = failureId
                   /\ \A j \in 1..(i - 1) : ls[j].id # failureId
       IN [ls EXCEPT ![i].resolution = resolution, ![i].type = "pattern"]
  ELSE ls

\* (mutant) no success entry is ever dropped.
recordSuccessKeepAll(ls, id, tool, context) ==
  Append(ls, NewEntry(id, "success", tool, <<>>, context, 1))

\* push the entry; if there are now more than 100 success entries, drop the
\* entries that have the id of the first of them.
recordSuccess(ls, id, tool, context) ==
  LET pushed == Append(ls, NewEntry(id, "success", tool, <<>>, context, 1))
      successes == Filter(pushed, { i \in 1..Len(pushed) :
                                      pushed[i].type = "success" }, 1)
  IN IF Len(successes) > SuccessCap
     THEN Filter(pushed, { i \in 1..Len(pushed) :
                             pushed[i].id # successes[1].id }, 1)
     ELSE pushed

recordInsight(ls, id, insight) ==
  Append(ls, NewEntry(id, "insight", "", <<>>, insight, 0))

\* Array.prototype.slice(-n).
SliceLast(ls, n) ==
  IF Len(ls) <= n THEN ls ELSE SubSeq(ls, Len(ls) - n + 1, Len(ls))

\* Array.prototype.slice(0, n).
SliceFirst(ls, n) == IF Len(ls) <= n THEN ls ELSE SubSeq(ls, 1, n)

\* The filter of findRelevantLearnings: an absent tool or pattern filters
\* nothing, an entry without error passes the pattern.
Relevant(l, tool, errorPattern) ==
  /\ ~(tool # "" /\ l.tool # tool)
  /\ ~(errorPattern # <<>> /\ l.error # <<>> /\ ~HasWindow(l.error, errorPattern))
  /\ l.type \in { "pattern", "insight" }

\* (mutant) the first ten relevant entries.
findRelevantLearningsFirst(ls, tool, errorPattern) ==
  SliceFirst(Filter(ls, { i \in 1..Len(ls) : Relevant(ls[i], tool, errorPattern) }, 1),
             FindWindow)

findRelevantLearnings(ls, tool, errorPattern) ==
  SliceLast(Filter(ls, { i \in 1..Len(ls) : Relevant(ls[i], tool, errorPattern) }, 1),
            FindWindow)

\* The public methods, called one at a time; every one of them that changes
\* learnings also saves learnings.json.
RecordFailure(tool, error) ==
  /\ learnings' = recordFailure(learnings, nextId, tool, error)
  /\ nextId' = nextId + 1
  /\ UNCHANGED <<lastFailureId, found, notLe>>

RecordResolution(failureId, resolution) ==
  /\ learnings' = recordResolution(learnings, failureId, resolution)
  /\ UNCHANGED <<lastFailureId, nextId, found, notLe>>

RecordSuccess(tool) ==
  /\ learnings' = recordSuccess(learnings, nextId, tool, "ctx")
  /\ nextId' = nextId + 1
  /\ UNCHANGED <<lastFailureId, found, notLe>>

RecordInsight ==
  /\ learnings' = recordInsight(learnings, nextId, "insight")
  /\ nextId' = nextId + 1
  /\ UNCHANGED <<lastFailureId, found, notLe>>

FindRelevantLearnings(tool, errorPattern) ==
  /\ found' = <<[tool |-> tool, errorPattern |-> errorPattern,
                 result |-> findRelevantLearnings(learnings, tool, errorPattern)]>>
  /\ UNCHANGED <<learnings, lastFailureId, nextId, notLe>>

\* (mutant) the plugin's own tools are not told apart.
IsOwnToolNever(toolName) == FALSE

\* toolName?.startsWith("foundry_")
IsOwnTool(toolName) == toolName = "foundry_x"

\* The after_tool_call hook.  toolName "" is an event without toolName;
\* failed: the event has an error, or a result with an error.
AfterToolCall(toolName, failed, errorMsg) ==
  /\ IF IsOwnTool(toolName) THEN UNCHANGED leVars
     ELSE IF failed
     THEN LET tool == IF toolName = "" THEN "unknown" ELSE toolName
              ls == recordFailure(learnings, nextId, tool, errorMsg)
          IN /\ learnings' = ls
             /\ lastFailureId' = <<nextId>>
             /\ nextId' = nextId + 1
             /\ found' = <<[tool |-> toolName, errorPattern |-> <<>>,
                            result |-> findRelevantLearnings(ls, toolName, <<>>)]>>
     ELSE IF lastFailureId # <<>> /\ toolName # ""
     THEN /\ learnings' = recordResolution(learnings, lastFailureId[1],
                                           <<"Succeeded with ", toolName>>)
          /\ lastFailureId' = <<>>
          /\ UNCHANGED <<nextId, found>>
     ELSE UNCHANGED leVars
  /\ UNCHANGED notLe

\* (mutant) agent_end leaves the failure tracking as it is.
AgentEndKeepsTracking(combo) ==
  /\ IF combo
     THEN /\ learnings' = recordInsight(learnings, nextId, "insight")
          /\ nextId' = nextId + 1
     ELSE UNCHANGED <<learnings, nextId>>
  /\ UNCHANGED <<lastFailureId, found, notLe>>

\* The agent_end hook.  combo: outcome is "success" and more than two tools
\* were used.
AgentEnd(combo) ==
  /\ IF combo
     THEN /\ learnings' = recordInsight(learnings, nextId, "insight")
          /\ nextId' = nextId + 1
     ELSE UNCHANGED <<learnings, nextId>>
  /\ lastFailureId' = <<>>
  /\ UNCHANGED <<found, notLe>>

\* learnings.json as an earlier run of the plugin left it: n entries made by
\* recordSuccess or by recordInsight, loaded by loadLearnings.
RECURSIVE Loaded(_, _)
Loaded(type, n) ==
  IF n = 0 THEN <<>>
  ELSE Append(Loaded(type, n - 1),
              IF type = "success"
              THEN [id |-> n - 1, type |-> "success", tool |-> "t1", error |-> <<>>,
                    resolution |-> <<>>, context |-> "ctx", timestamp |-> 0,
                    useCount |-> 1]
              ELSE [id |-> n - 1, type |-> "insight", tool |-> "", error |-> <<>>,
                    resolution |-> <<>>, context |-> "insight", timestamp |-> 0,
                    useCount |-> 0])

\* Most entries recorded in a run of the methods, of the hooks, after a load.
MaxEntries == 3
MaxFindOps == 2
MaxCapOps == 4

\* The methods called directly, in any order, resolutions on any id.
LeInit == ValIdle /\ SbIdle /\ WrIdle /\ LeIdle /\ SwIdle /\ AuxIdle

LeNext ==
  \/ \E tool \in ToolNames, error \in ErrorTexts :
       nextId < MaxEntries /\ RecordFailure(tool, error)
  \/ \E id \in 0..MaxEntries, r \in Resolutions : RecordResolution(id, r)
  \/ \E tool \in ToolNames : nextId < MaxEntries /\ RecordSuccess(tool)
  \/ nextId < MaxEntries /\ RecordInsight

LeSpec == LeInit /\ [][LeNext]_vars

\* The toolName of an after_tool_call event: a tool of the host, none, or
\* one of the plugin's own tools.
HookToolNames == ToolNames \cup { "", "foundry_x" }

\* The two hooks, fired by the agent in any order.
HookNext ==
  \/ \E toolName \in HookToolNames, failed \in BOOLEAN, e \in ErrorTexts :
       nextId < MaxEntries /\ AfterToolCall(toolName, failed, e)
  \/ \E combo \in BOOLEAN : nextId < MaxEntries /\ AgentEnd(combo)

HookSpec == LeInit /\ [][HookNext]_vars

\* Queries after a load of nine insights and a few more records.
FindInit ==
  /\ ValIdle /\ SbIdle /\ WrIdle /\ SwIdle /\ AuxIdle
  /\ learnings = Loaded("insight", FindWindow - 1)
  /\ nextId = FindWindow - 1
  /\ lastFailureId = <<>> /\ found = <<>>

FindNext ==
  \/ \E tool \in ToolNames, error \in ErrorTexts :
       nextId < FindWindow - 1 + MaxFindOps /\ RecordFailure(tool, error)
  \/ \E id \in (FindWindow - 1)..(FindWindow - 1 + MaxFindOps) :
       RecordResolution(id, <<"r1">>)
  \/ nextId < FindWindow - 1 + MaxFindOps /\ RecordInsight
  \/ \E tool \in ToolNames \cup { "" }, pat \in ErrorPatterns :
       FindRelevantLearnings(tool, pat)

FindSpec == FindInit /\ [][FindNext]_vars

\* Records after a load of 99 success entries.
CapInit ==
  /\ ValIdle /\ SbIdle /\ WrIdle /\ SwIdle /\ AuxIdle
  /\ learnings = Loaded("success", SuccessCap - 1)
  /\ nextId = SuccessCap - 1
  /\ lastFailureId = <<>> /\ found = <<>>

CapNext ==
  \/ nextId < SuccessCap - 1 + MaxCapOps /\ RecordSuccess("t1")
  \/ nextId < SuccessCap - 1 + MaxCapOps /\ RecordFailure("t1", <<"E1">>)
  \/ nextId < SuccessCap - 1 + MaxCapOps /\ RecordInsight
  \/ \E id \in { 0 } \cup (SuccessCap - 1)..(SuccessCap - 1 + MaxCapOps) :
       RecordResolution(id, <<"r1">>)

CapSpec == CapInit /\ [][CapNext]_vars

\* -------------------------------------------------------- SelfWriter -----
\* Most entries of the SelfWriter manifest.
MaxWritten == 2

\* manifest without the entry at index (splice(index, 1)).
Splice(ws, index) == SubSeq(ws, 1, index - 1) \o SubSeq(ws, index + 1, Len(ws))

\* findIndex(w => w.id === id): 0 for -1.
FindIndex(ws, id) ==
  IF \E i \in 1..Len(ws) : ws[i].id = id
  THEN CHOOSE i \in 1..Len(ws) :
         /\ ws[i].id = id
         /\ \A j \in 1..(i - 1) : ws[j].id # id
  ELSE 0

\* loadCode(id): the text of written/<id>.ts, <<>> for null.
loadCode(fs, id) == fs[id]

\* getAll(): the manifest in memory.
getAll(ws) == ws

\* write, first half: the id is made and the code file written.
SwWriteFile(name, code) ==
  LET id == <<"tool", name, now>>
      full == [id |-> id, type |-> "tool", name |-> name, code |-> code,
               createdAt |-> now]
  IN /\ swUp /\ swOp = <<>>
     /\ Len(swManifest) < MaxWritten
     /\ swFiles' = [swFiles EXCEPT ![id] = <<code>>]
     /\ swOp' = <<[op |-> "write", id |-> id, full |-> full]>>
     /\ UNCHANGED <<swManifest, swDiskManifest, swUp, now, notSw>>

\* write, second half: the entry is pushed and the manifest saved.
SwWriteManifest ==
  /\ swUp /\ swOp # <<>> /\ swOp[1].op = "write"
  /\ swManifest' = Append(swManifest, swOp[1].full)
  /\ swDiskManifest' = Append(swManifest, swOp[1].full)
  /\ swOp' = <<>>
  /\ UNCHANGED <<swFiles, swUp, now, notSw>>

\* delete, first half: false for an unknown id; else the entry is spliced out
\* and the manifest saved.
SwDeleteManifest(id) ==
  /\ swUp /\ swOp = <<>>
  /\ FindIndex(swManifest, id) # 0
  /\ swManifest' = Splice(swManifest, FindIndex(swManifest, id))
  /\ swDiskManifest' = Splice(swManifest, FindIndex(swManifest, id))
  /\ swOp' = <<[op |-> "delete", id |-> id, full |-> <<>>]>>
  /\ UNCHANGED <<swFiles, swUp, now, notSw>>

\* delete, second half: the code file is unlinked if it exists.
SwDeleteFile ==
  /\ swUp /\ swOp # <<>> /\ swOp[1].op = "delete"
  /\ swFiles' = [swFiles EXCEPT ![swOp[1].id] = <<>>]
  /\ swOp' = <<>>
  /\ UNCHANGED <<swManifest, swDiskManifest, swUp, now, notSw>>

\* The process dies (a crash, a kill, a gateway restart): what is in memory is
\* lost, what is on disk stays.
SwCrash ==
  /\ swUp
  /\ swUp' = FALSE /\ swOp' = <<>> /\ swManifest' = <<>>
  /\ UNCHANGED <<swDiskManifest, swFiles, now, notSw>>

\* A new process constructs the SelfWriter: loadManifest reads manifest.json.
SwLoad ==
  /\ ~swUp
  /\ swUp' = TRUE
  /\ swManifest' = swDiskManifest
  /\ UNCHANGED <<swDiskManifest, swFiles, swOp, now, notSw>>

\* A millisecond passes.
SwTick ==
  /\ now < MaxSwClock
  /\ now' = now + 1
  /\ UNCHANGED <<swVars, notSw>>

SwInit == ValIdle /\ SbIdle /\ WrIdle /\ LeIdle /\ SwIdle /\ AuxIdle

SwNext ==
  \/ \E name \in SwNames, code \in SwCodes : SwWriteFile(name, code)
  \/ SwWriteManifest
  \/ \E id \in SwIds : SwDeleteManifest(id)
  \/ SwDeleteFile
  \/ SwCrash
  \/ SwLoad
  \/ SwTick

SwSpec == SwInit /\ [][SwNext]_vars

\* ------------------------------------------------ loading the stores -----
\* A persisted file: kind "missing" (no file), "empty" (no bytes), "garbage"
\* (not JSON), or the kind of the JSON value in it; items: the elements of an
\* array; extKind, extItems: the extensions field of an object.
Raw(kind, items, extKind, extItems) ==
  [kind |-> kind, items |-> items, extKind |-> extKind, extItems |-> extItems]

RawCommon ==
  { Raw(k, <<>>, "absent", <<>>) :
      k \in { "missing", "empty", "garbage", "null", "number" } }

SwRaws == RawCommon \cup { Raw("object", <<>>, "absent", <<>>),
                           Raw("array", <<>>, "absent", <<>>) }

LeRaws == RawCommon \cup { Raw("object", <<>>, "absent", <<>>),
                           Raw("array", <<>>, "absent", <<>>),
                           Raw("array", Loaded("insight", 1), "absent", <<>>) }

CwRaws ==
  RawCommon \cup
  { Raw("array", <<>>, "absent", <<>>),
    Raw("object", <<>>, "absent", <<>>),
    Raw("object", <<>>, "number", <<>>),
    Raw("object", <<>>, "array", <<>>),
    Raw("object", <<>>, "array",
        <<[id |-> "a", tools |-> <<>>, hooks |-> <<>>, createdAt |-> 0]>>) }

\* JSON.parse(readFileSync(path)) returns (it throws on no bytes and on text
\* that is not JSON).
JsonParses(raw) == raw.kind \in { "null", "number", "object", "array" }

\* (mutant) loadManifest without its try/catch.
SwLoadManifestNoCatch(raw) ==
  [threw |-> raw.kind # "missing" /\ ~JsonParses(raw),
   value |-> IF raw.kind = "array" THEN raw.items ELSE <<>>]

\* SelfWriter.loadManifest: the field keeps its initial [] without a file and
\* gets [] in the catch block and for a value that is not an array.
SwLoadManifest(raw) ==
  [threw |-> FALSE,
   value |-> IF raw.kind = "missing" THEN <<>>
             ELSE IF ~JsonParses(raw) THEN <<>>
             ELSE IF raw.kind = "array" THEN raw.items ELSE <<>>]

\* LearningEngine.loadLearnings: the same.
loadLearnings(raw) ==
  [threw |-> FALSE,
   value |-> IF raw.kind = "missing" THEN <<>>
             ELSE IF ~JsonParses(raw) THEN <<>>
             ELSE IF raw.kind = "array" THEN raw.items ELSE <<>>]

\* CodeWriter.loadManifest: extensions is data?.extensions if that is an
\* array, else [].
CwLoadManifest(raw) ==
  [threw |-> FALSE,
   value |-> IF raw.kind = "missing" THEN <<>>
             ELSE IF ~JsonParses(raw) THEN <<>>
             ELSE IF raw.kind = "object" /\ raw.extKind = "array"
                  THEN raw.extItems ELSE <<>>]

\* The outcome of a constructor that loads.
Outcome(r) == IF r.threw THEN "threw" ELSE "yes"

\* new SelfWriter(config), new CodeWriter(...), new LearningEngine(...).
BootSelfWriter ==
  LET r == SwLoadManifest(boot.files["sw"])
  IN /\ boot.loaded["sw"] = "no"
     /\ boot' = [boot EXCEPT !.loaded["sw"] = Outcome(r)]
     /\ swManifest' = r.value
     /\ swUp' = ~r.threw
     /\ UNCHANGED <<swDiskManifest, swFiles, swOp, now, valVars, sb, dirs, wrVars,
                    leVars, host, psVars>>

BootCodeWriter ==
  LET r == CwLoadManifest(boot.files["cw"])
  IN /\ boot.loaded["cw"] = "no"
     /\ boot' = [boot EXCEPT !.loaded["cw"] = Outcome(r)]
     /\ manifest' = r.value
     /\ UNCHANGED <<diskManifest, files, calls, passedLog, valVars, sbVars, leVars,
                    swVars, host, psVars>>

BootLearningEngine ==
  LET r == loadLearnings(boot.files["le"])
  IN /\ boot.loaded["le"] = "no"
     /\ boot' = [boot EXCEPT !.loaded["le"] = Outcome(r)]
     /\ learnings' = r.value
     /\ UNCHANGED <<lastFailureId, nextId, found, valVars, sbVars, wrVars, swVars,
                    host, psVars>>

\* The stores are constructed on whatever files the data directory holds and
\* then used.
LoadInit ==
  /\ ValIdle /\ SbIdle /\ WrIdle
  /\ learnings = <<>> /\ lastFailureId = <<>> /\ nextId = 1 /\ found = <<>>
  /\ swManifest = <<>> /\ swDiskManifest = <<>>
  /\ swFiles = [id \in SwIds |-> <<>>]
  /\ swOp = <<>> /\ swUp = FALSE
  /\ \E sw \in SwRaws, cw \in CwRaws, le \in LeRaws :
       boot = [files |-> [s \in Stores |->
                            IF s = "sw" THEN sw ELSE IF s = "cw" THEN cw ELSE le],
               loaded |-> [s \in Stores |-> "no"]]
  /\ host = [answer |-> <<>>, unhandled |-> 0]
  /\ PsIdle

LoadNext ==
  \/ BootSelfWriter
  \/ BootCodeWriter
  \/ BootLearningEngine
  \/ boot.loaded["sw"] = "yes" /\ SwWriteFile("n1", "c1")
  \/ boot.loaded["sw"] = "yes" /\ SwWriteManifest
  \/ boot.loaded["cw"] = "yes" /\ MarketplaceInstall("b")
  \/ boot.loaded["le"] = "yes" /\ nextId < 2 /\ RecordInsight

LoadSpec == LoadInit /\ [][LoadNext]_vars

\* ------------------------------------------- the tools, as the host sees them
\* The Error a writeExtension call with a validator threw.
ThrownMessage(c) ==
  IF ~calls[c].validation.valid
  THEN <<"Code validation failed: ", calls[c].validation.errors>>
  ELSE <<"Sandbox test failed: ", sb[c].result[1].error>>

\* What foundry_write_extension returns for call c once the call has ended:
\* the catch block turns a throw into the "Extension BLOCKED" answer.
WriteExtensionAnswer(c) ==
  IF calls[c].pc = "thrown"
  THEN <<"## Extension BLOCKED", ThrownMessage(c)>>
  ELSE <<"## Extension Written", calls[c].validation.warnings,
         calls[c].validation.securityFlags>>

\* Most unhandled rejections counted.
MaxUnhandled == 2

\* The manifest with a tool, a hook, pushed onto the entry of id (ext is the
\* manifest's own object).
Pushed(exts, id, field, x) ==
  [i \in 1..Len(exts) |->
     IF exts[i].id = id /\ \A j \in 1..(i - 1) : exts[j].id # id
     THEN IF field = "tools" THEN [exts[i] EXCEPT !.tools = Append(@, x)]
          ELSE [exts[i] EXCEPT !.hooks = Append(@, x)]
     ELSE exts[i]]

\* foundry_add_tool and foundry_add_hook: "not found" for an unknown extension;
\* else addTool / addHook push onto the manifest entry and call
\* writeExtension(ext) without awaiting it, and the tool answers "Added".
\* fsOk = FALSE: mkdirSync or writeFileSync throws in that writeExtension, whose
\* promise nobody holds.
AddAndAnswer(id, field, x, fsOk) ==
  IF id \notin { manifest[i].id : i \in 1..Len(manifest) }
  THEN /\ host' = [host EXCEPT !.answer = <<"not found", id>>]
       /\ UNCHANGED <<manifest, diskManifest, files>>
  ELSE LET pushed == Pushed(manifest, id, field, x)
           ext == CHOOSE e \in { pushed[i] : i \in 1..Len(pushed) } : e.id = id
           full == [ext EXCEPT !.createdAt = now]
       IN /\ Len(ext.tools) <= MaxTools /\ Len(ext.hooks) <= MaxHooks
          /\ host.unhandled < MaxUnhandled
          /\ IF fsOk
             THEN /\ files' = [files EXCEPT ![id] =
                                 <<[index |-> RenderExtension(full), plugin |-> id]>>]
                  /\ manifest' = Upsert(pushed, full)
                  /\ diskManifest' = Upsert(pushed, full)
                  /\ host' = [host EXCEPT !.answer = <<"Added", id>>]
             ELSE /\ manifest' = pushed
                  /\ UNCHANGED <<diskManifest, files>>
                  /\ host' = [answer |-> <<"Added", id>>,
                              unhandled |-> host.unhandled + 1]

FoundryAddTool(id, tool, fsOk) ==
  /\ AddAndAnswer(id, "tools", tool, fsOk)
  /\ UNCHANGED <<calls, passedLog, valVars, sbVars, leVars, swVars, boot, psVars>>

FoundryAddHook(id, hook, fsOk) ==
  /\ AddAndAnswer(id, "hooks", hook, fsOk)
  /\ UNCHANGED <<calls, passedLog, valVars, sbVars, leVars, swVars, boot, psVars>>

ToolInit == ValIdle /\ SbIdle /\ WrIdle /\ LeIdle /\ SwIdle /\ AuxIdle

ToolNext ==
  \/ \E def \in Submissions : FoundryWriteExtension(1, def)
  \/ WxResume(1)
  \/ \E id \in Ids : MarketplaceInstall(id)
  \/ \E id \in Ids, tool \in ToolCodes, fsOk \in BOOLEAN : FoundryAddTool(id, tool, fsOk)
  \/ \E id \in Ids, hook \in HookCodes, fsOk \in BOOLEAN : FoundryAddHook(id, hook, fsOk)

ToolSpec == ToolInit /\ [][ToolNext]_vars

\* ------------------------------------------------- the pending session ----
\* Most "Saved pending session" and "Resumed session" lines of the log.
MaxSessionLog == 4

\* The reasons foundry_restart is called with; a reason stands for the
\* session saved with it (context and lastMessage are saved alongside).
Reasons == { "r1", "r2" }

\* savePendingSession: the session in memory and pending-session.json.
savePendingSession(reason) ==
  LET session == [reason |-> reason, createdAt |-> now]
  IN [session |-> <<session>>, file |-> <<session>>]

\* loadPendingSession, on a new LearningEngine (pendingSession is null): the
\* parsed file if there is one.
loadPendingSession(file) == IF file # <<>> THEN file ELSE <<>>

getPendingSession(session) == session

\* (mutant) the file is left where it is.
clearPendingSessionInMemory(session, file) == [session |-> <<>>, file |-> file]

\* clearPendingSession: null in memory, and the file unlinked if it exists.
clearPendingSession(session, file) == [session |-> <<>>, file |-> <<>>]

hasPendingSession(session) == session # <<>>

\* foundry_restart: the session is saved (the gateway restart is scheduled
\* 500 ms later).
FoundryRestart(reason) ==
  /\ Len(sessionLog) < MaxSessionLog
  /\ LET saved == savePendingSession(reason)
     IN /\ pendingSession' = saved.session
        /\ pendingSessionFile' = saved.file
  /\ sessionLog' = Append(sessionLog, [ev |-> "saved", reason |-> reason])
  /\ UNCHANGED <<prependContext, boot, host, valVars, sbVars, wrVars, leVars,
                 swVars>>

\* The gateway restarts: register() runs in a new process and the new
\* LearningEngine loads the file.
GatewayRestart ==
  /\ pendingSession' = loadPendingSession(pendingSessionFile)
  /\ prependContext' = <<>>
  /\ UNCHANGED <<pendingSessionFile, sessionLog, boot, host, valVars, sbVars,
                 wrVars, leVars, swVars>>

\* The before_agent_start hook (it has no await): the resume part of the
\* context it returns; the learnings part only reads the learnings.
BeforeAgentStart ==
  LET session == getPendingSession(pendingSession)
  IN IF session # <<>>
     THEN LET cleared == clearPendingSession(pendingSession, pendingSessionFile)
          IN /\ Len(sessionLog) < MaxSessionLog
             /\ pendingSession' = cleared.session
             /\ pendingSessionFile' = cleared.file
             /\ sessionLog' = Append(sessionLog,
                                     [ev |-> "resumed", reason |-> session[1].reason])
             /\ prependContext' = <<[resume |-> session]>>
             /\ UNCHANGED <<boot, host, valVars, sbVars, wrVars, leVars, swVars>>
     ELSE /\ prependContext' = <<[resume |-> <<>>]>>
          /\ UNCHANGED <<pendingSession, pendingSessionFile, sessionLog, boot,
                         host, valVars, sbVars, wrVars, leVars, swVars>>

ResumeInit == ValIdle /\ SbIdle /\ WrIdle /\ LeIdle /\ SwIdle /\ AuxIdle

ResumeNext ==
  \/ \E reason \in Reasons : FoundryRestart(reason)
  \/ GatewayRestart
  \/ BeforeAgentStart
  \/ SbTick

ResumeSpec == ResumeInit /\ [][ResumeNext]_vars

\* ============================================================ claims ======

\* Rule i of a table matches the text (RegExp.test, case-insensitive).
RuleHits(rules, i, code) == Test(rules[i].windows, LowerText(code))

InSeq(x, seq) == \E j \in 1..Len(seq) : seq[j] = x

\* C3: a text that matches a block rule is invalid and errors holds the reason
\* of every matched block rule (as "BLOCKED: <reason>"), whatever flag rules
\* match and whatever the kind; a matched flag rule's reason is in
\* securityFlags and in no error, and valid is exactly "errors is empty".
C3Theorem ==
  vOut # <<>> =>
    LET res == vOut[1]
    IN /\ \A i \in 1..Len(blockPatterns) :
            RuleHits(blockPatterns, i, vIn.code) =>
              /\ ~res.valid
              /\ InSeq(<<"BLOCKED: ", blockPatterns[i].reason>>, res.errors)
       /\ \A i \in 1..Len(flagPatterns) :
            /\ RuleHits(flagPatterns, i, vIn.code)
                 <=> InSeq(flagPatterns[i].reason, res.securityFlags)
            /\ \A j \in 1..Len(res.errors) :
                 flagPatterns[i].reason \notin
                   { res.errors[j][k] : k \in 1..Len(res.errors[j]) }
       /\ res.valid <=> (res.errors = <<>>)

\* Two block rules and a flag rule match and validate has returned.
C3Witness ==
  /\ vOut # <<>>
  /\ RuleHits(blockPatterns, 5, vIn.code)
  /\ RuleHits(blockPatterns, 6, vIn.code)
  /\ RuleHits(flagPatterns, 1, vIn.code)

\* The text require(child_process).
RequireChildProcess == <<"require(", "child_process", ")">>

\* C4: validate of the text require(child_process) returns valid = FALSE with
\* a shell-execution finding among its errors.
C4Claim ==
  (vOut # <<>> /\ vIn.code = RequireChildProcess) =>
    /\ ~vOut[1].valid
    /\ \/ InSeq(<<"BLOCKED: ", "Shell execution">>, vOut[1].errors)
       \/ InSeq(<<"BLOCKED: ", "Child process import">>, vOut[1].errors)

\* C6: a run's result is a success only if the close handler saw exit code 0
\* and SANDBOX_OK on stdout; every failure carries an error string.
C6Theorem ==
  \A r \in Runs :
    sb[r].result # <<>> =>
      LET res == sb[r].result[1]
      IN /\ res.success =>
              /\ sb[r].closeDone /\ sb[r].child = "exited"
              /\ sb[r].exitCode = 0 /\ sb[r].stdoutOk
         /\ ~res.success => res.error # <<>>

\* The child closed with exit code 0 without the marker, and the run failed.
C6Witness ==
  \E r \in Runs :
    /\ sb[r].closeDone /\ sb[r].child = "exited"
    /\ sb[r].exitCode = 0 /\ ~sb[r].stdoutOk
    /\ sb[r].result # <<>> /\ ~sb[r].result[1].success

\* C7: when a run has its result, its working directory is gone.
C7Claim ==
  \A r \in Runs : sb[r].result # <<>> => sb[r].testDir \notin dirs

\* C8: once the timeout fallback has run, the child ends and the working
\* directory is removed, also for a child that ignores SIGTERM.
C8Claim ==
  \A r \in Runs :
    (sb[r].fallbackTimer = "fired")
      ~> (sb[r].child # "alive" /\ sb[r].testDir \notin dirs)

\* C9: every run gets a result; while the child is alive (no close, no error)
\* that result is the timeout failure; a result, once there, never changes.
C9Theorem ==
  /\ \A r \in Runs : (sb[r].st = "running") ~> (sb[r].result # <<>>)
  /\ [](\A r \in Runs :
          (sb[r].result # <<>> /\ sb[r].child = "alive")
             => sb[r].result = <<TimeoutResult>>)
  /\ [][\A r \in Runs :
          sb[r].result # <<>> => sb'[r].result = sb[r].result]_vars

\* A child that hangs: the run has the timeout failure while it is alive.
C9Witness ==
  \E r \in Runs :
    /\ sb[r].child = "alive" /\ sb[r].plugin.after = "hang"
    /\ sb[r].result = <<TimeoutResult>>

\* C10: a candidate that registers a tool without an execute function, in
\* whatever shape, does not pass the sandbox.
DeclaresToolWithoutHandler(plugin) ==
  \E i \in 1..Len(plugin.regs) : SomeToolLacksExecute(plugin.regs[i].tools)

C10Claim ==
  \A r \in Runs :
    (sb[r].result # <<>> /\ DeclaresToolWithoutHandler(sb[r].plugin))
      => ~sb[r].result[1].success

\* The ids of the entries of a manifest.
IdsOf(exts) == { exts[i].id : i \in 1..Len(exts) }

\* The call has ended, one way or the other.
Ended(c) == calls[c].pc \in { "thrown", "returned" }

\* C1: a writeExtension call with a validator changes no file and no manifest
\* before its await on validate; resumed with valid = FALSE, or with a failed
\* sandbox result, it throws and changes no file and no manifest (in memory or
\* on disk).
C1Theorem ==
  [][\A c \in Calls :
       /\ (calls[c].pc # "awaitValidate" /\ calls'[c].pc = "awaitValidate")
            => UNCHANGED store
       /\ (calls[c].pc = "awaitValidate" /\ ~calls[c].validation.valid
             /\ calls'[c] # calls[c])
            => (calls'[c].pc = "thrown" /\ UNCHANGED store)
       /\ (calls[c].pc = "awaitSandbox" /\ sb[c].result # <<>>
             /\ ~sb[c].result[1].success /\ calls'[c] # calls[c])
            => (calls'[c].pc = "thrown" /\ UNCHANGED store)]_vars

\* A submission was rejected on its validation and nothing of it is stored.
C1Witness ==
  \E c \in Calls :
    /\ calls[c].pc = "thrown" /\ ~calls[c].validation.valid
    /\ calls[c].full.id \notin IdsOf(manifest) \cup IdsOf(diskManifest)
    /\ files[calls[c].full.id] = <<>>

\* C2: every manifest entry, in memory and on disk, and every deployed
\* index.ts is that of a definition that passed validate and the sandbox test.
C2Claim ==
  /\ \A i \in 1..Len(manifest) : manifest[i] \in passedLog
  /\ \A i \in 1..Len(diskManifest) : diskManifest[i] \in passedLog
  /\ \A id \in Ids :
       files[id] # <<>> =>
         \E p \in passedLog : p.id = id /\ files[id][1].index = RenderExtension(p)

\* The rendered text matches no block rule and no flag rule.
Clean(code) ==
  /\ staticSecurityScan(code).blocked = <<>>
  /\ staticSecurityScan(code).flagged = <<>>

\* C5: a submission whose text matches no rule and is a well-formed module
\* ends accepted, with a manifest entry under its id, unless its sandbox run
\* failed.
C5Claim ==
  \A c \in Calls :
    (/\ Ended(c)
     /\ Clean(RenderExtension(calls[c].full))
     /\ BehaviourOf(calls[c].full).importOk)
    => \/ calls[c].pc = "returned" /\ calls[c].full.id \in IdsOf(manifest)
       \/ sb[c].result # <<>> /\ ~sb[c].result[1].success

\* No two entries of a manifest have the same id.
NoDupIds(exts) ==
  \A i, j \in 1..Len(exts) : exts[i].id = exts[j].id => i = j

\* exts2 is exts with the entry at one position replaced by one of the same id.
ReplacedInPlace(exts, exts2) ==
  /\ Len(exts2) = Len(exts)
  /\ \E i \in 1..Len(exts) :
       /\ exts2[i].id = exts[i].id
       /\ \A j \in 1..Len(exts) : j # i => exts2[j] = exts[j]

\* exts2 is exts with one entry of a new id at its end.
AppendedNew(exts, exts2) ==
  /\ Len(exts2) = Len(exts) + 1
  /\ SubSeq(exts2, 1, Len(exts)) = exts
  /\ exts2[Len(exts2)].id \notin IdsOf(exts)

\* C11: every change of the manifest replaces one entry in place by one of the
\* same id, all other entries kept, or appends one entry of a new id; the
\* manifest, in memory and on disk, never holds two entries of one id; and an
\* upsert of a definition into a manifest that already took it changes
\* nothing and leaves one entry of its id.
C11Theorem ==
  /\ [](NoDupIds(manifest) /\ NoDupIds(diskManifest))
  /\ [](\A d \in Submissions :
          LET once == Upsert(manifest, FullDef(d))
              twice == Upsert(once, FullDef(d))
          IN /\ twice = once
             /\ Cardinality({ i \in 1..Len(twice) : twice[i].id = d.id }) = 1
             /\ \/ d.id \in IdsOf(manifest) /\ ReplacedInPlace(manifest, once)
                \/ d.id \notin IdsOf(manifest) /\ AppendedNew(manifest, once))
  /\ [][manifest' # manifest =>
          \/ ReplacedInPlace(manifest, manifest')
          \/ AppendedNew(manifest, manifest')]_vars

\* The first of two entries was replaced in place, twice (a tool, then a hook,
\* or the other way round), and the second entry is still there.
C11Witness ==
  /\ Len(manifest) = 2
  /\ manifest[1].tools # <<>> /\ manifest[1].hooks # <<>>
  /\ manifest[2].tools = <<>> /\ manifest[2].hooks = <<>>
  /\ diskManifest = manifest

\* C12: when two overlapping writeExtension calls for the same new id have
\* both ended, both have completed and the manifest, in memory and on disk,
\* holds exactly one entry of that id, the definition of one of the two calls.
C12Claim ==
  (/\ Ended(1) /\ Ended(2)
   /\ calls[1].full.id = calls[2].full.id)
  => /\ calls[1].pc = "returned" /\ calls[2].pc = "returned"
     /\ \E i \in 1..Len(manifest) :
          /\ manifest[i] \in { calls[1].full, calls[2].full }
          /\ \A j \in 1..Len(manifest) :
               manifest[j].id = calls[1].full.id => j = i
     /\ diskManifest = manifest

\* C13: no two writeExtension calls are in flight at the same time.
C13Claim ==
  \A c, d \in Calls : (InFlight(c) /\ InFlight(d)) => c = d

\* The ids of the learning entries.
EntryIds(ls) == { ls[i].id : i \in 1..Len(ls) }

\* The step records a new entry of the given type (it is the last entry).
Recorded(type) ==
  /\ nextId' = nextId + 1
  /\ learnings' # <<>>
  /\ learnings'[Len(learnings')].id = nextId
  /\ learnings'[Len(learnings')].type = type

C15Claim ==
  [][\A i \in 1..Len(learnings) :
       (/\ i <= Len(learnings') /\ learnings'[i].id = learnings[i].id
        /\ learnings'[i].type # learnings[i].type)
       => (learnings[i].type = "failure" /\ learnings'[i].type = "pattern")]_vars

\* C16: no tool has two entries of type failure (unresolved failures).
C16Claim ==
  \A i, j \in 1..Len(learnings) :
    (/\ learnings[i].type = "failure" /\ learnings[j].type = "failure"
     /\ learnings[i].tool = learnings[j].tool)
    => i = j

\* The position in learnings of the entry with the id of e.
PosOf(e) == CHOOSE i \in 1..Len(learnings) : learnings[i].id = e.id

\* The entry is one the query asks for.
AskedFor(l, q) ==
  /\ l.type \in { "pattern", "insight" }
  /\ q.tool = "" \/ l.tool = q.tool
  /\ q.errorPattern = <<>> \/ l.error = <<>> \/ HasWindow(l.error, q.errorPattern)

\* What C17 says of a query's result but for the order: only entries of
\* learnings that were asked for, at most 10, and an entry asked for is left
\* out only of a full result, for being older than all entries in it.
FoundTheLatest(q) ==
  /\ Len(q.result) <= FindWindow
  /\ \A k \in 1..Len(q.result) :
       /\ q.result[k] \in { learnings[i] : i \in 1..Len(learnings) }
       /\ AskedFor(q.result[k], q)
  /\ \A i \in 1..Len(learnings) :
       (AskedFor(learnings[i], q)
          /\ learnings[i] \notin { q.result[k] : k \in 1..Len(q.result) })
       => /\ Len(q.result) = FindWindow
          /\ \A k \in 1..Len(q.result) : i < PosOf(q.result[k])

\* C17 (as amended): findRelevantLearnings returns the last 10 entries of type
\* pattern or insight that pass the tool and error filters, in recording
\* order: the most recently recorded one is the last element.
C17Theorem ==
  [][(found' # found) =>
       LET q == found'[1]
       IN /\ FoundTheLatest(q)
          /\ \A k, m \in 1..Len(q.result) :
               k < m => PosOf(q.result[k]) < PosOf(q.result[m])]_vars

\* A query with more than 10 entries to return: the oldest insight is left out.
C17Witness ==
  /\ found # <<>>
  /\ Len(found[1].result) = FindWindow
  /\ found[1].result[1].id > 0
  /\ found[1].result[FindWindow].type = "pattern"
  /\ found[1].tool = "" /\ found[1].errorPattern = <<"E2">>

\* C17: as above, but most-recent-first: the most recently recorded entry
\* asked for is the first element.
C17Claim ==
  [][(found' # found) =>
       LET q == found'[1]
       IN /\ FoundTheLatest(q)
          /\ \A k, m \in 1..Len(q.result) :
               k < m => PosOf(q.result[k]) > PosOf(q.result[m])]_vars

\* The number of success entries.
Successes(ls) == Cardinality({ i \in 1..Len(ls) : ls[i].type = "success" })

\* ls without its first success entry.
WithoutOldestSuccess(ls) ==
  LET first == CHOOSE i \in 1..Len(ls) :
                 /\ ls[i].type = "success"
                 /\ \A j \in 1..(i - 1) : ls[j].type # "success"
  IN SubSeq(ls, 1, first - 1) \o SubSeq(ls, first + 1, Len(ls))

\* C18: there are never more than 100 success entries; a recordSuccess adds
\* its entry at the end and, when there were 100 already, drops the oldest
\* success entry; every other entry stays as it was, where it was.
C18Theorem ==
  /\ [](Successes(learnings) <= SuccessCap)
  /\ [][Recorded("success") =>
          SubSeq(learnings', 1, Len(learnings') - 1)
            = IF Successes(learnings) < SuccessCap THEN learnings
              ELSE WithoutOldestSuccess(learnings)]_vars

\* The oldest success entry was evicted; a pattern recorded before the
\* eviction is still there.
C18Witness ==
  /\ Successes(learnings) = SuccessCap
  /\ 0 \notin EntryIds(learnings)
  /\ \E i \in 1..Len(learnings) :
       learnings[i].type = "pattern" /\ learnings[i].error # <<>>
  /\ learnings[Len(learnings)].type = "success"

\* C19: a success recorded for the tool of a pattern raises the useCount of
\* that pattern (repeated successes drive it from 0 to the crystallization
\* threshold), and the useCount of a pattern never decreases.
C19Claim ==
  [][\A i \in 1..Len(learnings) :
       (learnings[i].type = "pattern" /\ i <= Len(learnings'))
       => /\ learnings'[i].useCount >= learnings[i].useCount
          /\ (Recorded("success")
                /\ learnings'[Len(learnings')].tool = learnings[i].tool)
             => learnings'[i].useCount > learnings[i].useCount]_vars

\* Every manifest entry has its code file and every code file has a manifest
\* entry.
SwConsistent(ws, fs) ==
  /\ \A i \in 1..Len(ws) : fs[ws[i].id] # <<>>
  /\ \A id \in SwIds : fs[id] # <<>> => \E i \in 1..Len(ws) : ws[i].id = id

\* C20: when a delete has finished, neither a manifest entry nor a code file
\* of the id is left; and when the SelfWriter has been loaded, after whatever
\* happened before, its manifest and the code files agree.
C20Claim ==
  [][/\ (swOp # <<>> /\ swOp[1].op = "delete" /\ swUp' /\ swOp' = <<>>)
          => /\ FindIndex(swManifest', swOp[1].id) = 0
             /\ FindIndex(swDiskManifest', swOp[1].id) = 0
             /\ swFiles'[swOp[1].id] = <<>>
     /\ (~swUp /\ swUp') => SwConsistent(swManifest', swFiles')]_vars

\* The file is missing, empty, unparseable or not of the shape the store
\* expects (an array; for the CodeWriter an object with an extensions array).
Unusable(s, raw) ==
  \/ raw.kind \in { "missing", "empty", "garbage", "null", "number" }
  \/ s \in { "sw", "le" } /\ raw.kind # "array"
  \/ s = "cw" /\ (raw.kind # "object" \/ raw.extKind # "array")

\* The collection a store holds in memory.
StoreOf(s) ==
  IF s = "sw" THEN swManifest ELSE IF s = "cw" THEN manifest ELSE learnings

\* C21: no constructor throws; a store constructed on an unusable file starts
\* empty; and what a later operation stores in it is all it holds.
C21Theorem ==
  /\ [](\A s \in Stores : boot.loaded[s] # "threw")
  /\ [][\A s \in Stores :
          (boot.loaded[s] = "no" /\ boot'.loaded[s] # "no"
             /\ Unusable(s, boot.files[s]))
          => (boot'.loaded[s] = "yes" /\ StoreOf(s)' = <<>>)]_vars
  /\ [](\A s \in Stores :
          (boot.loaded[s] = "yes" /\ Unusable(s, boot.files[s]))
          => Len(StoreOf(s)) <= MaxWritten)

\* The three stores were constructed on an empty file, on text that is not
\* JSON and on a JSON number, and each has taken an entry since.
C21Witness ==
  /\ boot.files["sw"].kind = "empty" /\ Len(swManifest) = 1
  /\ boot.files["cw"].kind = "garbage" /\ Len(manifest) = 1
  /\ boot.files["le"].kind = "number" /\ Len(learnings) = 1

\* C22: a submission that ended in a throw is answered "Extension BLOCKED"
\* with the errors of the validation, or the error of the sandbox run, in the
\* answer; and no rejection of a write started by a tool is left unhandled.
C22Claim ==
  /\ \A c \in Calls :
       calls[c].pc = "thrown" =>
         /\ WriteExtensionAnswer(c)[1] = "## Extension BLOCKED"
         /\ WriteExtensionAnswer(c)[2][2] # <<>>
  /\ host.unhandled = 0

NoToolsWarning == "Extension doesn't register any tools"

\* C24 (as amended): for kind extension a text without api.registerTool gets
\* the warning and a text without export default gets the error "Extension
\* missing 'export default'", which makes it invalid; valid is: the syntax
\* check passed, no block rule matched and, for an extension, export default
\* is there.  Kinds tool and hook get neither.
C24Theorem ==
  vOut # <<>> =>
    LET res == vOut[1]
        ext == vIn.type = "extension"
        clean == /\ FunctionBodyParses(vIn.code)
                 /\ staticSecurityScan(vIn.code).blocked = <<>>
    IN /\ InSeq(NoToolsWarning, res.warnings)
            <=> (ext /\ ~Includes(vIn.code, HasRegisterTool))
       /\ InSeq(MissingExportDefault, res.errors)
            <=> (ext /\ ~Includes(vIn.code, HasExportDefault))
       /\ res.valid <=> (clean /\ (ext => Includes(vIn.code, HasExportDefault)))

\* An extension text that passes the syntax and security stages and lacks
\* export default is invalid, with that one error.
C24Witness ==
  /\ vOut # <<>> /\ vIn.type = "extension"
  /\ FunctionBodyParses(vIn.code)
  /\ staticSecurityScan(vIn.code).blocked = <<>>
  /\ vOut[1].errors = <<MissingExportDefault>>
  /\ ~vOut[1].valid

\* C24: the structural check only adds warnings: valid is decided by the
\* syntax and security stages alone.
C24Claim ==
  vOut # <<>> =>
    /\ ~InSeq(MissingExportDefault, vOut[1].errors)
    /\ vOut[1].valid <=> (/\ FunctionBodyParses(vIn.code)
                          /\ staticSecurityScan(vIn.code).blocked = <<>>)

\* A run whose child is still running (it reads index.ts and runner.mjs of
\* its working directory).
ChildRunning(r) == sb[r].st = "running" /\ sb[r].child = "alive"

\* C25: two testInSandbox runs that overlap have distinct working directories,
\* and the working directory of a run whose child is still running exists (no
\* other run's cleanup removed it).
C25Claim ==
  /\ \A r1, r2 \in Runs :
       (r1 # r2 /\ ChildRunning(r1) /\ ChildRunning(r2))
          => sb[r1].testDir # sb[r2].testDir
  /\ \A r \in Runs : ChildRunning(r) => sb[r].testDir \in dirs

\* A write returns, a delete returns true (both halves of the call done).
SwWriteReturns == swUp /\ swOp # <<>> /\ swOp[1].op = "write" /\ swUp' /\ swOp' = <<>>
SwDeleteReturns == swUp /\ swOp # <<>> /\ swOp[1].op = "delete" /\ swUp' /\ swOp' = <<>>

\* No two entries of a SelfWriter manifest share an id.
SwNoDupIds(ws) == \A i, j \in 1..Len(ws) : ws[i].id = ws[j].id => i = j

\* C26: no two manifest entries ever share an id, a write adds exactly one
\* entry and a successful delete removes exactly one entry.
C26Claim ==
  [][/\ SwNoDupIds(swManifest')
     /\ SwWriteReturns => Len(swManifest') = Len(swManifest) + 1
     /\ (swUp /\ swOp = <<>> /\ swOp' # <<>> /\ swOp'[1].op = "delete")
          => Len(swManifest') = Len(swManifest) - 1]_vars

\* C27: from the return of a write, and while the entry is there, loadCode of
\* an entry's id is the code that was written as that entry; when delete(i)
\* has returned true, loadCode(i) is null and getAll has no entry of id i.
C27Claim ==
  [][/\ (swUp' /\ swOp' = <<>>)
          => \A k \in 1..Len(getAll(swManifest')) :
               loadCode(swFiles', getAll(swManifest')[k].id)
                  = <<getAll(swManifest')[k].code>>
     /\ SwDeleteReturns
          => /\ loadCode(swFiles', swOp[1].id) = <<>>
             /\ \A k \in 1..Len(getAll(swManifest')) :
                  getAll(swManifest')[k].id # swOp[1].id]_vars

\* The entries recorded by recordFailure (unresolved or resolved).
FailureRecords == { i \in 1..Len(learnings) : learnings[i].type \in { "failure", "pattern" } }

C30Theorem ==
  [][/\ BeforeAgentStart
          => IF hasPendingSession(pendingSession)
             THEN /\ prependContext' = <<[resume |-> pendingSession]>>
                  /\ ~hasPendingSession(pendingSession')
                  /\ pendingSessionFile' = <<>>
             ELSE /\ prependContext' = <<[resume |-> <<>>]>>
                  /\ UNCHANGED <<pendingSession, pendingSessionFile>>
     /\ hasPendingSession(pendingSession')
          <=> (/\ sessionLog' # <<>>
               /\ sessionLog'[Len(sessionLog')].ev = "saved")
     /\ \A i \in 1..Len(sessionLog') :
          sessionLog'[i].ev = "resumed"
             => /\ i > 1
                /\ sessionLog'[i - 1].ev = "saved"
                /\ sessionLog'[i - 1].reason = sessionLog'[i].reason]_vars

\* A session was saved, the gateway restarted or not, one agent start resumed
\* it and a later agent start got no resume context.
C30Witness ==
  /\ Len(sessionLog) = 2
  /\ sessionLog[1].ev = "saved" /\ sessionLog[2].ev = "resumed"
  /\ prependContext = <<[resume |-> <<>>]>>
  /\ ~hasPendingSession(pendingSession)

====
